---------------------------- MODULE Spec2Model ----------------------------
(***************************************************************************)
(* Model of ts-option-type (src/index.ts): the None singleton, the Some    *)
(* constructor, their thirteen members and the five conversion utilities.  *)
(*                                                                         *)
(* Objects live in a heap (a sequence of records); a reference is an index *)
(* into it, so "the same instance" is equality of references.  heap[1] is  *)
(* the None object literal, every later cell was built by a call of Some.  *)
(* A consumer callback is a record describing what it returns; every       *)
(* invocation of a callback is appended to the log of the running          *)
(* operation, so "invoked exactly once on v" is a statement about the log. *)
(***************************************************************************)
EXTENDS Integers, Sequences, FiniteSets, TLC

(* ------------------------------ bounds --------------------------------- *)
MaxVal == 1        \* the numbers a raw value ranges over are 0..MaxVal
MaxHeap == 2       \* objects built by Some() in one behaviour

(* --------------------------- raw JS values ----------------------------- *)
Null == 0 - 1      \* the value null
Undefined == 0 - 2 \* the value undefined
Numbers == 0 .. MaxVal
Val == {Null, Undefined} \cup Numbers

VARIABLES
    heap,      \* the objects: heap[1] is None, the others were built by Some
    cur,       \* reference of the Option the consumer currently holds
    op,        \* the call that just returned: name, receiver, arguments,
               \* result and log; IdleOp between two calls
    chain,     \* the chain of map/and/andThen/filter calls that led to cur:
               \* "intact" while its start and every result were present,
               \* "absentStart" / "absentLink" once its start / a result was absent
    factory,   \* <<>> or <<p>>: the closure returned by createOptionFactory
    faulty     \* whether the consumer passes callbacks that throw

vars == <<heap, cur, op, chain, factory, faulty>>

(* ------------------------ consumer callbacks --------------------------- *)
Identity == [v \in Val |-> v]
ConstNull == [v \in Val |-> Null]
ConstUndefined == [v \in Val |-> Undefined]
Incr == [v \in Val |-> IF v \in Numbers THEN (v + 1) % (MaxVal + 1) ELSE v]

OrZero == [v \in Val |-> IF v \in {Null, Undefined} THEN 0 ELSE v]
IsZero == [v \in Val |-> v = 0]
IsNull == [v \in Val |-> v = Null]
ConstTrue == [v \in Val |-> TRUE]
ConstFalse == [v \in Val |-> FALSE]

\* the faults a consumer callback may raise
Errors == {"E1", "E2"}
Thrower(e) == [kind |-> "throw", err |-> e]
Throwers == IF faulty THEN {Thrower(e) : e \in Errors} ELSE {}

\* value: T => U
Transforms ==
    {[kind |-> "fn", tbl |-> t] : t \in {Identity, ConstNull, ConstUndefined, Incr}}
        \cup Throwers
\* the transforms the laws are checked with
LawTransforms ==
    {[kind |-> "fn", tbl |-> t] : t \in {Identity, ConstNull, ConstUndefined, Incr, OrZero}}
\* x => g(f(x))
Compose(f, g) == [kind |-> "fn", tbl |-> [v \in Val |-> g.tbl[f.tbl[v]]]]
\* the binds the laws are checked with, over the objects of heap h
LawBinds(h) ==
    {[kind |-> "retRef", ref |-> r] : r \in 1 .. Len(h)}
        \cup {[kind |-> "retSome", tbl |-> t] : t \in {Identity, ConstNull, Incr}}
\* x => f(x).andThen(g)
BindThen(f, g) == [kind |-> "then", first |-> f, next |-> g]
\* the function Some passed as a bind: x => Some(x)
SomeAsBind == [kind |-> "retSome", tbl |-> Identity]
\* value: T => boolean
Predicates ==
    {[kind |-> "fn", tbl |-> t] : t \in {IsZero, IsNull, ConstTrue, ConstFalse}}
        \cup Throwers
\* the predicates the laws are checked with
LawPredicates ==
    {[kind |-> "fn", tbl |-> t] : t \in {IsZero, IsNull, ConstTrue, ConstFalse}}
\* the predicates a factory is created with
FactoryPredicates == {[kind |-> "fn", tbl |-> t] : t \in {IsZero, IsNull}} \cup Throwers
\* () => T
Computes == {[kind |-> "const", val |-> v] : v \in Val} \cup Throwers
\* value: T => Option<U>, over the objects of heap h
Binds(h) ==
    {[kind |-> "retRef", ref |-> r] : r \in 1 .. Len(h)}
        \cup {[kind |-> "retSome", tbl |-> t] : t \in {Identity, ConstNull}}
        \cup Throwers
\* () => Option<T>, over the objects of heap h
OptionComputes(h) ==
    {[kind |-> "retRef", ref |-> r] : r \in 1 .. Len(h)}
        \cup {[kind |-> "mkSome", val |-> v] : v \in {Null, 0}}
        \cup Throwers

(* ------------------------- the two variants ---------------------------- *)
NoneRef == 1

\* the members isNone / isSome of the None object literal
NoneObject == [isNone |-> TRUE, isSome |-> FALSE]

\* slip: the isNone member copied from the None literal
SomeObject_IsNoneCopied(value) == [value |-> value, isNone |-> TRUE, isSome |-> TRUE]

\* the object literal returned by Some(value): the captured value and the
\* members isNone / isSome
SomeObject(value) == [value |-> value, isNone |-> FALSE, isSome |-> TRUE]

\* A running operation carries st = [heap, log]; every function returns
\* [threw, val, heap, log]: whether it raised, what it returned, the heap and
\* the invocation log after it.
Return(st, v) == [threw |-> FALSE, val |-> v, heap |-> st.heap, log |-> st.log]

\* the first argument a callback receives; a parameter that was not passed
\* is undefined
Arg(args) == IF Len(args) >= 1 THEN args[1] ELSE Undefined

\* what a consumer callback does when it is called with args: defined below,
\* after the members a callback may itself call
RECURSIVE Apply(_, _, _)

\* a call expression cb(args) inside the library, cb being the parameter at
\* position param: the callback runs and the invocation is recorded
Call(st, param, cb, args) ==
    LET r == Apply(cb, args, st.heap)
    IN  [threw |-> r.threw, val |-> r.val, heap |-> r.heap,
         log |-> Append(st.log, [param |-> param, args |-> args,
                                 threw |-> r.threw, val |-> r.val])]

(* ------------------------------- None ---------------------------------- *)
None_match(st, some, none) == Call(st, 2, none, <<>>)
None_getValueOrDefault(st, defaultValue) == Return(st, defaultValue)
None_getValueOrCompute(st, computeFn) == Call(st, 1, computeFn, <<>>)
\* slip: the default goes through the transform
None_mapOrDefault_MapsDefault(st, map, defaultValue) == Call(st, 1, map, <<defaultValue>>)
None_mapOrDefault(st, map, defaultValue) == Return(st, defaultValue)
None_mapOrCompute(st, map, defaultComputeFn) == Call(st, 2, defaultComputeFn, <<>>)
\* slip: the transform is run on the absent path as well
None_map_Invokes(st, fn) ==
    LET r == Call(st, 1, fn, <<>>)
    IN  IF r.threw THEN r ELSE Return(r, NoneRef)
None_map(st, fn) == Return(st, NoneRef)
None_and(st, option) == Return(st, NoneRef)
\* slip: bind is run on the absent path and its Option returned
None_andThen_Invokes(st, fn) == Call(st, 1, fn, <<>>)
None_andThen(st, fn) == Return(st, NoneRef)
\* slip: the absent receiver wins over the operand
None_or_KeepsNone(st, option) == Return(st, NoneRef)
None_or(st, option) == Return(st, option)
None_orElse(st, fn) == Call(st, 1, fn, <<>>)
None_filter(st, fn) == Return(st, NoneRef)

(* ------------------------------- Some ---------------------------------- *)
\* function Some(value): a new object is built on every call
Some(st, value) ==
    [threw |-> FALSE, val |-> Len(st.heap) + 1,
     heap |-> Append(st.heap, SomeObject(value)), log |-> st.log]

\* the value captured by the closure of the object this
Captured(st, this) == st.heap[this].value

\* the order before 2.0.0: the callback for the present case comes second
Some_match_SomeSecond(st, this, some, none) == Call(st, 2, none, <<Captured(st, this)>>)
Some_match(st, this, some, none) == Call(st, 1, some, <<Captured(st, this)>>)
Some_getValueOrDefault(st, this, defaultValue) == Return(st, Captured(st, this))
\* slip: the fallback is computed before the variant is looked at
Some_getValueOrCompute_Eager(st, this, computeFn) ==
    LET r == Call(st, 1, computeFn, <<>>)
    IN  IF r.threw THEN r ELSE Return(r, Captured(st, this))
Some_getValueOrCompute(st, this, computeFn) == Return(st, Captured(st, this))
Some_mapOrDefault(st, this, map, defaultValue) ==
    Call(st, 1, map, <<Captured(st, this)>>)
Some_mapOrCompute(st, this, map, computeFn) ==
    Call(st, 1, map, <<Captured(st, this)>>)
\* slip: the transform is called without the captured value
Some_map_DropsValue(st, this, fn) ==
    LET r == Call(st, 1, fn, <<>>)
    IN  IF r.threw THEN r ELSE Some(r, r.val)
\* slip: the result is written into the receiver, which is returned
Some_map_InPlace(st, this, fn) ==
    LET r == Call(st, 1, fn, <<Captured(st, this)>>)
    IN  IF r.threw THEN r
        ELSE [threw |-> FALSE, val |-> this, log |-> r.log,
              heap |-> [r.heap EXCEPT ![this] = SomeObject(r.val)]]
\* slip: a fault of the transform is turned into absence
Some_map_Catches(st, this, fn) ==
    LET r == Call(st, 1, fn, <<Captured(st, this)>>)
    IN  IF r.threw THEN Return(r, NoneRef) ELSE Some(r, r.val)
\* slip: the transform's result goes through the null check of fromValue
Some_map_Nullable(st, this, fn) ==
    LET r == Call(st, 1, fn, <<Captured(st, this)>>)
    IN  IF r.threw THEN r
        ELSE IF r.val = Null \/ r.val = Undefined THEN Return(r, NoneRef)
        ELSE Some(r, r.val)
Some_map(st, this, fn) ==
    LET r == Call(st, 1, fn, <<Captured(st, this)>>)
    IN  IF r.threw THEN r ELSE Some(r, r.val)
\* slip: and confused with or
Some_and_KeepsThis(st, this, option) == Return(st, this)
Some_and(st, this, option) == Return(st, option)
\* the release before 3.0.0: the callback's result is wrapped in a new Some
Some_andThen_Wraps(st, this, fn) ==
    LET r == Call(st, 1, fn, <<Captured(st, this)>>)
    IN  IF r.threw THEN r ELSE Some(r, r.val)
Some_andThen(st, this, fn) == Call(st, 1, fn, <<Captured(st, this)>>)
Some_or(st, this, option) == Return(st, this)
\* slip: the fallback is computed although the receiver is present
Some_orElse_Eager(st, this, fn) ==
    LET r == Call(st, 1, fn, <<>>)
    IN  IF r.threw THEN r ELSE Return(r, this)
Some_orElse(st, this, fn) == Return(st, this)
\* slip: the predicate is evaluated again for the branch taken
Some_filter_Twice(st, this, fn) ==
    LET r == Call(st, 1, fn, <<Captured(st, this)>>)
        q == IF r.threw THEN r ELSE Call(r, 1, fn, <<Captured(st, this)>>)
    IN  IF q.threw THEN q
        ELSE IF q.val THEN Return(q, this) ELSE Return(q, NoneRef)
\* slip: an absent object is built per call, as by a _none<T>() function
Some_filter_FreshNone(st, this, fn) ==
    LET r == Call(st, 1, fn, <<Captured(st, this)>>)
    IN  IF r.threw THEN r
        ELSE IF r.val THEN Return(r, this)
        ELSE [threw |-> FALSE, val |-> Len(r.heap) + 1, log |-> r.log,
              heap |-> Append(r.heap, NoneObject)]
\* slip: a match is returned as a new Some around the value, not as this
Some_filter_Copies(st, this, fn) ==
    LET r == Call(st, 1, fn, <<Captured(st, this)>>)
    IN  IF r.threw THEN r
        ELSE IF r.val THEN Some(r, Captured(st, this)) ELSE Return(r, NoneRef)
\* slip: the branches of the conditional swapped
Some_filter_Swapped(st, this, fn) ==
    LET r == Call(st, 1, fn, <<Captured(st, this)>>)
    IN  IF r.threw THEN r
        ELSE IF r.val THEN Return(r, NoneRef) ELSE Return(r, this)
Some_filter(st, this, fn) ==
    LET r == Call(st, 1, fn, <<Captured(st, this)>>)
    IN  IF r.threw THEN r
        ELSE IF r.val THEN Return(r, this) ELSE Return(r, NoneRef)

(* ------------------ member lookup on an Option<T> ----------------------- *)
\* o.member(...) runs the member of the object o refers to: the None literal
\* or a literal built by Some
Option_match(st, o, some, none) ==
    IF o = NoneRef THEN None_match(st, some, none) ELSE Some_match(st, o, some, none)
Option_getValueOrDefault(st, o, defaultValue) ==
    IF o = NoneRef THEN None_getValueOrDefault(st, defaultValue)
    ELSE Some_getValueOrDefault(st, o, defaultValue)
Option_getValueOrCompute(st, o, computeFn) ==
    IF o = NoneRef THEN None_getValueOrCompute(st, computeFn)
    ELSE Some_getValueOrCompute(st, o, computeFn)
Option_mapOrDefault(st, o, map, defaultValue) ==
    IF o = NoneRef THEN None_mapOrDefault(st, map, defaultValue)
    ELSE Some_mapOrDefault(st, o, map, defaultValue)
Option_mapOrCompute(st, o, map, computeFn) ==
    IF o = NoneRef THEN None_mapOrCompute(st, map, computeFn)
    ELSE Some_mapOrCompute(st, o, map, computeFn)
Option_map(st, o, fn) ==
    IF o = NoneRef THEN None_map(st, fn) ELSE Some_map(st, o, fn)
Option_and(st, o, option) ==
    IF o = NoneRef THEN None_and(st, option) ELSE Some_and(st, o, option)
Option_andThen(st, o, fn) ==
    IF o = NoneRef THEN None_andThen(st, fn) ELSE Some_andThen(st, o, fn)
Option_or(st, o, option) ==
    IF o = NoneRef THEN None_or(st, option) ELSE Some_or(st, o, option)
Option_orElse(st, o, fn) ==
    IF o = NoneRef THEN None_orElse(st, fn) ELSE Some_orElse(st, o, fn)
Option_filter(st, o, fn) ==
    IF o = NoneRef THEN None_filter(st, fn) ELSE Some_filter(st, o, fn)

(* ------------------- what the callbacks evaluate to --------------------- *)
\* what a consumer callback does when it is called with args
Apply(cb, args, h) ==
    CASE cb.kind = "throw"   -> [threw |-> TRUE, val |-> cb.err, heap |-> h]
      [] cb.kind = "fn"      -> [threw |-> FALSE, val |-> cb.tbl[Arg(args)], heap |-> h]
      [] cb.kind = "const"   -> [threw |-> FALSE, val |-> cb.val, heap |-> h]
      [] cb.kind = "retRef"  -> [threw |-> FALSE, val |-> cb.ref, heap |-> h]
      [] cb.kind = "retSome" ->
            [threw |-> FALSE, val |-> Len(h) + 1,
             heap |-> Append(h, SomeObject(cb.tbl[Arg(args)]))]
      [] cb.kind = "mkSome"  ->
            [threw |-> FALSE, val |-> Len(h) + 1,
             heap |-> Append(h, SomeObject(cb.val))]
      [] cb.kind = "then"    ->
            LET a == Apply(cb.first, args, h)
            IN  IF a.threw THEN a
                ELSE LET b == Option_andThen([heap |-> a.heap, log |-> <<>>],
                                             a.val, cb.next)
                     IN  [threw |-> b.threw, val |-> b.val, heap |-> b.heap]

(* ----------------------- conversion utilities -------------------------- *)
\* slip: a truthiness test (value ? Some(value) : None); 0 is falsy
fromValue_Falsy(st, value) ==
    IF value = Null \/ value = Undefined \/ value = 0
    THEN Return(st, NoneRef) ELSE Some(st, value)

\* slip: only null is checked
fromValue_NullOnly(st, value) ==
    IF value = Null THEN Return(st, NoneRef) ELSE Some(st, value)

fromValue(st, value) ==
    IF value = Null \/ value = Undefined THEN Return(st, NoneRef) ELSE Some(st, value)

\* slip: null and undefined are absent before the predicate is asked
fromValueConditional_NullChecked(st, value, isNone) ==
    IF value = Null \/ value = Undefined THEN Return(st, NoneRef)
    ELSE LET r == Call(st, 2, isNone, <<value>>)
         IN  IF r.threw THEN r
             ELSE IF r.val THEN Return(r, NoneRef) ELSE Some(r, value)

fromValueConditional(st, value, isNone) ==
    LET r == Call(st, 2, isNone, <<value>>)
    IN  IF r.threw THEN r
        ELSE IF r.val THEN Return(r, NoneRef) ELSE Some(r, value)

\* slip: the loose comparison value == null, which undefined satisfies too
fromNullable_Loose(st, value) ==
    IF value = Null \/ value = Undefined THEN Return(st, NoneRef) ELSE Some(st, value)

fromNullable(st, value) ==
    IF value = Null THEN Return(st, NoneRef) ELSE Some(st, value)

fromUndefinable(st, value) ==
    IF value = Undefined THEN Return(st, NoneRef) ELSE Some(st, value)

\* createOptionFactory(isNonePredicate) returns a closure over the predicate
createOptionFactory(isNonePredicate) == <<isNonePredicate>>

\* slip: the closure forgets its predicate and applies the null check
FactoryCall_FromValue(st, closure, value) ==
    IF value = Null \/ value = Undefined THEN Return(st, NoneRef) ELSE Some(st, value)

\* the closure: value => isNonePredicate(value) ? None : Some(value)
FactoryCall(st, closure, value) ==
    LET r == Call(st, 1, closure[1], <<value>>)
    IN  IF r.threw THEN r
        ELSE IF r.val THEN Return(r, NoneRef) ELSE Some(r, value)

(* ------------------------- the consumer's steps ------------------------ *)
\* the state an operation starts in: the current heap and an empty log
Start == [heap |-> heap, log |-> <<>>]

IdleOp == [name |-> "idle"]

\* what the consumer observes of a call: its name, receiver and arguments,
\* the state of the chain it was made in, whether it raised, what it returned
\* and which callbacks it invoked
OpRecord(name, recv, args, r) ==
    [name |-> name, recv |-> recv, args |-> args, pre |-> chain,
     threw |-> r.threw, ret |-> r.val, log |-> r.log]

\* an operation that yields an Option the consumer starts a new chain on
Begin(name, recv, args, r) ==
    /\ op = IdleOp
    /\ Len(r.heap) <= 1 + MaxHeap
    /\ heap' = r.heap
    /\ op' = OpRecord(name, recv, args, r)
    /\ cur' = IF r.threw THEN cur ELSE r.val
    /\ chain' = IF r.threw THEN chain
                ELSE IF r.heap[r.val].isNone THEN "absentStart" ELSE "intact"
    /\ UNCHANGED <<factory, faulty>>

\* map, and, andThen or filter called on the Option the consumer holds; the
\* result is the next Option of the chain
Link(name, args, r) ==
    /\ op = IdleOp
    /\ Len(r.heap) <= 1 + MaxHeap
    /\ heap' = r.heap
    /\ op' = OpRecord(name, cur, args, r)
    /\ cur' = IF r.threw THEN cur ELSE r.val
    /\ chain' = IF r.threw \/ chain # "intact" THEN chain
                ELSE IF r.heap[r.val].isNone THEN "absentLink" ELSE "intact"
    /\ UNCHANGED <<factory, faulty>>

\* an operation on the held Option that yields a raw value
Extract(name, args, r) ==
    /\ op = IdleOp
    /\ Len(r.heap) <= 1 + MaxHeap
    /\ heap' = r.heap
    /\ op' = OpRecord(name, cur, args, r)
    /\ UNCHANGED <<cur, chain, factory, faulty>>

CallSome ==
    \E v \in Val : Begin("Some", 0, <<v>>, Some(Start, v))

UseNone ==
    Begin("None", 0, <<>>, Return(Start, NoneRef))

CallFromValue ==
    \E v \in Val : Begin("fromValue", 0, <<v>>, fromValue(Start, v))

CallFromValueConditional ==
    \E v \in Val, p \in Predicates :
        Begin("fromValueConditional", 0, <<v, p>>, fromValueConditional(Start, v, p))

CallFromNullable ==
    \E v \in Val : Begin("fromNullable", 0, <<v>>, fromNullable(Start, v))

CallFromUndefinable ==
    \E v \in Val : Begin("fromUndefinable", 0, <<v>>, fromUndefinable(Start, v))

CallCreateOptionFactory ==
    \E p \in FactoryPredicates :
        /\ op = IdleOp
        /\ factory' = createOptionFactory(p)
        /\ op' = [name |-> "createOptionFactory", recv |-> 0, args |-> <<p>>,
                  pre |-> chain, threw |-> FALSE, ret |-> 0, log |-> <<>>]
        /\ UNCHANGED <<heap, cur, chain, faulty>>

CallFactory ==
    /\ factory # <<>>
    /\ \E v \in Val : Begin("factory", 0, <<v>>, FactoryCall(Start, factory, v))

CallMatch ==
    \E some \in Transforms, none \in Computes :
        Extract("match", <<some, none>>, Option_match(Start, cur, some, none))

\* match called as the first README section and src/test/option.test.ts do:
\* the callback meant for the absent case first, the one for the present
\* case second
CallMatchNoneFirst ==
    \E none \in Computes, some \in Transforms :
        Extract("matchNoneFirst", <<none, some>>, Option_match(Start, cur, none, some))

CallGetValueOrDefault ==
    \E d \in Val :
        Extract("getValueOrDefault", <<d>>, Option_getValueOrDefault(Start, cur, d))

CallGetValueOrCompute ==
    \E c \in Computes :
        Extract("getValueOrCompute", <<c>>, Option_getValueOrCompute(Start, cur, c))

CallMapOrDefault ==
    \E f \in Transforms, d \in Val :
        Extract("mapOrDefault", <<f, d>>, Option_mapOrDefault(Start, cur, f, d))

CallMapOrCompute ==
    \E f \in Transforms, c \in Computes :
        Extract("mapOrCompute", <<f, c>>, Option_mapOrCompute(Start, cur, f, c))

CallMap ==
    \E f \in Transforms : Link("map", <<f>>, Option_map(Start, cur, f))

CallAnd ==
    \E x \in 1 .. Len(heap) : Link("and", <<x>>, Option_and(Start, cur, x))

CallAndThen ==
    \E f \in Binds(heap) : Link("andThen", <<f>>, Option_andThen(Start, cur, f))

CallOr ==
    \E x \in 1 .. Len(heap) : Begin("or", cur, <<x>>, Option_or(Start, cur, x))

CallOrElse ==
    \E f \in OptionComputes(heap) :
        Begin("orElse", cur, <<f>>, Option_orElse(Start, cur, f))

CallFilter ==
    \E p \in Predicates : Link("filter", <<p>>, Option_filter(Start, cur, p))

\* what the consumer observes of the two sides of a law: the content (the
\* members and the captured value) of the Option either side evaluated to; it
\* keeps none of the Options built on the way
LawRecord(name, args, l, r) ==
    [name |-> name, recv |-> cur, args |-> args, pre |-> chain,
     threw |-> l.threw \/ r.threw, ret |-> 0, log |-> <<>>,
     lhs |-> l.heap[l.val], rhs |-> r.heap[r.val]]

\* what the consumer observes of two expressions it compares with ===: what
\* either returned, a raw value or the reference of an Option
ResultRecord(name, args, l, r) ==
    [name |-> name, recv |-> cur, args |-> args, pre |-> chain,
     threw |-> l.threw \/ r.threw, ret |-> 0, log |-> <<>>,
     lhs |-> l.val, rhs |-> r.val]

\* what comes after a call in the same expression: the heap the call left, a
\* new log
After(r) == [heap |-> r.heap, log |-> <<>>]

\* cur.map(f).map(g) beside cur.map(x => g(f(x)))
CompareMapComposition ==
    \E f \in LawTransforms, g \in LawTransforms :
        LET a == Option_map(Start, cur, f)
            l == Option_map(After(a), a.val, g)
            r == Option_map(Start, cur, Compose(f, g))
        IN  /\ op = IdleOp
            /\ op' = LawRecord("map.map", <<f, g>>, l, r)
            /\ UNCHANGED <<heap, cur, chain, factory, faulty>>

\* cur.andThen(f).andThen(g) beside cur.andThen(x => f(x).andThen(g))
CompareAndThenAssociativity ==
    \E f \in LawBinds(heap), g \in LawBinds(heap) :
        LET a == Option_andThen(Start, cur, f)
            l == Option_andThen(After(a), a.val, g)
            r == Option_andThen(Start, cur, BindThen(f, g))
        IN  /\ op = IdleOp
            /\ op' = LawRecord("andThen.andThen", <<f, g>>, l, r)
            /\ UNCHANGED <<heap, cur, chain, factory, faulty>>

\* cur.andThen(Some) beside cur
CompareAndThenSome ==
    /\ op = IdleOp
    /\ op' = LawRecord("andThen.Some", <<SomeAsBind>>,
                       Option_andThen(Start, cur, SomeAsBind), Return(Start, cur))
    /\ UNCHANGED <<heap, cur, chain, factory, faulty>>

\* cur.filter(p).filter(p) beside cur.filter(p)
CompareFilterTwice ==
    \E p \in LawPredicates :
        LET a == Option_filter(Start, cur, p)
            l == Option_filter(After(a), a.val, p)
        IN  /\ op = IdleOp
            /\ op' = ResultRecord("filter.filter", <<p>>, l, a)
            /\ UNCHANGED <<heap, cur, chain, factory, faulty>>

\* cur.filter(p).filter(q) beside cur.filter(q).filter(p)
CompareFilterOrder ==
    \E p \in LawPredicates, q \in LawPredicates :
        LET a == Option_filter(Start, cur, p)
            l == Option_filter(After(a), a.val, q)
            b == Option_filter(After(l), cur, q)
            r == Option_filter(After(b), b.val, p)
        IN  /\ op = IdleOp
            /\ op' = LawRecord("filter.order", <<p, q>>, l, r)
            /\ UNCHANGED <<heap, cur, chain, factory, faulty>>

\* cur.or(X) beside cur.orElse(() => X)
CompareOrOrElse ==
    \E x \in 1 .. Len(heap) :
        LET l == Option_or(Start, cur, x)
            r == Option_orElse(After(l), cur, [kind |-> "retRef", ref |-> x])
        IN  /\ op = IdleOp
            /\ op' = ResultRecord("or.orElse", <<x>>, l, r)
            /\ UNCHANGED <<heap, cur, chain, factory, faulty>>

\* cur.and(X) beside cur.andThen(_ => X)
CompareAndAndThen ==
    \E x \in 1 .. Len(heap) :
        LET l == Option_and(Start, cur, x)
            r == Option_andThen(After(l), cur, [kind |-> "retRef", ref |-> x])
        IN  /\ op = IdleOp
            /\ op' = ResultRecord("and.andThen", <<x>>, l, r)
            /\ UNCHANGED <<heap, cur, chain, factory, faulty>>

\* cur.getValueOrDefault(d) beside cur.getValueOrCompute(() => d)
CompareGetValueOr ==
    \E d \in Val :
        LET l == Option_getValueOrDefault(Start, cur, d)
            r == Option_getValueOrCompute(After(l), cur, [kind |-> "const", val |-> d])
        IN  /\ op = IdleOp
            /\ op' = ResultRecord("getValueOrDefault.getValueOrCompute", <<d>>, l, r)
            /\ UNCHANGED <<heap, cur, chain, factory, faulty>>

\* cur.mapOrDefault(f, d) beside cur.mapOrCompute(f, () => d)
CompareMapOr ==
    \E f \in LawTransforms, d \in Val :
        LET l == Option_mapOrDefault(Start, cur, f, d)
            r == Option_mapOrCompute(After(l), cur, f, [kind |-> "const", val |-> d])
        IN  /\ op = IdleOp
            /\ op' = ResultRecord("mapOrDefault.mapOrCompute", <<f, d>>, l, r)
            /\ UNCHANGED <<heap, cur, chain, factory, faulty>>

\* one factory applied to v and then to w, beside fromValueConditional(w, p)
\* with the predicate p the factory was created with
CompareFactoryReuse ==
    \E v \in Val, w \in Val :
        /\ op = IdleOp
        /\ factory # <<>>
        /\ factory[1].kind = "fn"
        /\ LET a == FactoryCall(Start, factory, v)
               l == FactoryCall(After(a), factory, w)
               r == fromValueConditional(Start, w, factory[1])
           IN  op' = LawRecord("factory.factory", <<v, w>>, l, r)
        /\ UNCHANGED <<heap, cur, chain, factory, faulty>>

\* the consumer goes on to its next statement
Continue ==
    /\ op # IdleOp
    /\ op' = IdleOp
    /\ UNCHANGED <<heap, cur, chain, factory, faulty>>

Init ==
    /\ heap = <<NoneObject>>
    /\ cur = NoneRef
    /\ op = IdleOp
    /\ chain = "absentStart"
    /\ factory = <<>>
    /\ faulty = FALSE

\* the calls of the API, each with its arguments in the declared order
Calls ==
    \/ CallSome
    \/ UseNone
    \/ CallFromValue
    \/ CallFromValueConditional
    \/ CallFromNullable
    \/ CallFromUndefinable
    \/ CallCreateOptionFactory
    \/ CallFactory
    \/ CallMatch
    \/ CallGetValueOrDefault
    \/ CallGetValueOrCompute
    \/ CallMapOrDefault
    \/ CallMapOrCompute
    \/ CallMap
    \/ CallAnd
    \/ CallAndThen
    \/ CallOr
    \/ CallOrElse
    \/ CallFilter
    \/ Continue

\* the consumer also calls match as the first README section does
Next ==
    \/ Calls
    \/ CallMatchNoneFirst

Spec == Init /\ [][Next]_vars

\* the same consumer, who may also pass callbacks that raise
InitFaulty ==
    /\ heap = <<NoneObject>>
    /\ cur = NoneRef
    /\ op = IdleOp
    /\ chain = "absentStart"
    /\ factory = <<>>
    /\ faulty = TRUE

SpecFaulty == InitFaulty /\ [][Calls]_vars

\* a consumer who builds Options and a factory, holds any of them (None.or(X)
\* is X) and compares the two sides of the laws on it
NextLaws ==
    \/ CallSome
    \/ UseNone
    \/ CallOr
    \/ CallCreateOptionFactory
    \/ CallFactory
    \/ CompareMapComposition
    \/ CompareAndThenAssociativity
    \/ CompareAndThenSome
    \/ CompareFilterTwice
    \/ CompareFilterOrder
    \/ CompareOrOrElse
    \/ CompareAndAndThen
    \/ CompareGetValueOr
    \/ CompareMapOr
    \/ CompareFactoryReuse
    \/ Continue

SpecLaws == Init /\ [][NextLaws]_vars

(* ----------------------- vocabulary of the claims ----------------------- *)
Refs == 1 .. Len(heap)
LinkOps == {"map", "and", "andThen", "filter"}

\* a call with the given name has just returned or raised
Called(name) == op # IdleOp /\ op.name = name
CalledOneOf(names) == op # IdleOp /\ op.name \in names

\* the callback the consumer passed for the parameter at position param of
\* the last call; the factory's predicate was passed to createOptionFactory
PassedCallback(param) == IF op.name = "factory" THEN factory[1] ELSE op.args[param]

\* the operations that return an Option
OptionOps ==
    {"None", "fromValue", "fromValueConditional", "fromNullable", "fromUndefinable",
     "factory", "map", "and", "andThen", "or", "orElse", "filter"}

IsPresent(r) == heap[r].isSome
IsAbsent(r) == heap[r].isNone

\* the callback at position param was invoked exactly once, with args
InvokedOnce(param, args) ==
    /\ Len(op.log) = 1
    /\ op.log[1].param = param
    /\ op.log[1].args = args
NothingInvoked == Len(op.log) = 0

(* C1: every Option instance has exactly one of isSome and isNone true. *)
C1_ExactlyOneVariant ==
    \A r \in Refs : heap[r].isSome # heap[r].isNone

C1_Witness ==
    /\ Called("filter")
    /\ op.recv # NoneRef
    /\ op.ret = NoneRef
    /\ Len(heap) = 1 + MaxHeap

(* C2, as stated: every present Option, however it was produced, holds a   *)
(* payload that is neither null nor undefined.                             *)
C2_PayloadNeverNullish ==
    \A r \in Refs : IsPresent(r) => heap[r].value \notin {Null, Undefined}

(* C2, amended: a present Option returned by fromValue holds neither null  *)
(* nor undefined, one returned by fromNullable does not hold null and one  *)
(* returned by fromUndefinable does not hold undefined.                    *)
C2_ConversionPayload ==
    /\ Called("fromValue") /\ IsPresent(op.ret)
           => heap[op.ret].value \notin {Null, Undefined}
    /\ Called("fromNullable") /\ IsPresent(op.ret)
           => heap[op.ret].value # Null
    /\ Called("fromUndefinable") /\ IsPresent(op.ret)
           => heap[op.ret].value # Undefined

C2_Witness ==
    /\ Called("fromValue")
    /\ IsPresent(op.ret)
    /\ heap[op.ret].value = op.args[1]

(* C3: in a chain of map/and/andThen/filter calls, once the start or a     *)
(* result of the chain is absent, every later call returns an absent       *)
(* Option and invokes no callback; and none of the four turns an absent    *)
(* receiver into a present result.                                         *)
C3_ShortCircuit ==
    CalledOneOf(LinkOps) =>
        /\ op.pre # "intact" =>
               ~op.threw /\ IsAbsent(op.ret) /\ NothingInvoked
        /\ IsAbsent(op.recv) => ~op.threw /\ ~IsPresent(op.ret)

C3_Witness ==
    /\ CalledOneOf({"map", "andThen"})
    /\ op.pre = "absentLink"
    /\ op.args[1].kind \in {"fn", "retSome"}
    /\ IsAbsent(op.ret)

(* C4: None.map(f), None.andThen(f), None.and(X) and None.filter(f) each   *)
(* return None itself, and f is not invoked.                               *)
C4_AbsenceAbsorbs ==
    CalledOneOf(LinkOps) /\ op.recv = NoneRef =>
        ~op.threw /\ op.ret = NoneRef /\ NothingInvoked

C4_Witness ==
    /\ Called("and")
    /\ op.recv = NoneRef
    /\ op.args[1] # NoneRef
    /\ op.ret = NoneRef

(* C5: for a present P holding v, P.andThen(f) returns the very Option     *)
(* that f(v) returned, and f is invoked exactly once, on v.                *)
C5_AndThenReturnsBindResult ==
    Called("andThen") /\ IsPresent(op.recv) =>
        /\ InvokedOnce(1, <<heap[op.recv].value>>)
        /\ ~op.threw
        /\ op.ret = op.log[1].val
        /\ op.args[1].kind = "retRef" => op.ret = op.args[1].ref
        /\ op.args[1].kind = "retSome" =>
               /\ op.ret = Len(heap)
               /\ heap[op.ret] = SomeObject(op.args[1].tbl[heap[op.recv].value])

C5_Witness ==
    /\ Called("andThen")
    /\ IsPresent(op.recv)
    /\ op.args[1].kind = "retRef"
    /\ IsPresent(op.ret)
    /\ op.ret # op.recv

(* C6: for a present P, P.or(X) and P.orElse(f) return P itself and f is   *)
(* not invoked.                                                            *)
C6_OrKeepsPresent ==
    CalledOneOf({"or", "orElse"}) /\ IsPresent(op.recv) =>
        ~op.threw /\ op.ret = op.recv /\ NothingInvoked

C6_Witness ==
    /\ Called("orElse")
    /\ IsPresent(op.recv)
    /\ op.args[1].kind = "mkSome"
    /\ op.ret = op.recv

(* C7: None.or(X) returns X itself; None.orElse(f) returns the very Option *)
(* that f() returned, and f is invoked exactly once.                       *)
C7_OrOnNone ==
    /\ Called("or") /\ op.recv = NoneRef =>
           ~op.threw /\ op.ret = op.args[1] /\ NothingInvoked
    /\ Called("orElse") /\ op.recv = NoneRef =>
           /\ InvokedOnce(1, <<>>)
           /\ ~op.threw
           /\ op.ret = op.log[1].val
           /\ op.args[1].kind = "retRef" => op.ret = op.args[1].ref
           /\ op.args[1].kind = "mkSome" =>
                  op.ret = Len(heap) /\ heap[op.ret] = SomeObject(op.args[1].val)

C7_Witness ==
    /\ Called("or")
    /\ op.recv = NoneRef
    /\ IsPresent(op.args[1])
    /\ op.ret = op.args[1]

(* C8: for a present P holding v, P.filter(pred) is P itself when pred(v)  *)
(* is true and None otherwise, so it is present iff pred(v); None.filter   *)
(* is None and does not invoke pred.                                       *)
C8_Filter ==
    Called("filter") =>
        IF IsPresent(op.recv)
        THEN LET v == heap[op.recv].value
                 holds == op.args[1].tbl[v]
             IN  /\ ~op.threw
                 /\ IsPresent(op.ret) <=> holds
                 /\ holds => op.ret = op.recv /\ heap[op.ret].value = v
                 /\ ~holds => op.ret = NoneRef
        ELSE ~op.threw /\ op.ret = NoneRef /\ NothingInvoked

C8_Witness ==
    /\ Called("filter")
    /\ IsPresent(op.recv)
    /\ op.args[1].tbl = IsZero
    /\ heap[op.recv].value = 0
    /\ op.ret = op.recv

(* C9: A.and(B) returns B itself when A is present and None when A is      *)
(* absent: the result is present iff A and B both are, and then it holds   *)
(* B's value, whatever A holds.                                            *)
C9_And ==
    Called("and") =>
        /\ ~op.threw
        /\ NothingInvoked
        /\ IsPresent(op.recv) => op.ret = op.args[1]
        /\ IsAbsent(op.recv) => op.ret = NoneRef
        /\ IsPresent(op.ret) <=> IsPresent(op.recv) /\ IsPresent(op.args[1])
        /\ IsPresent(op.ret) => heap[op.ret].value = heap[op.args[1]].value

C9_Witness ==
    /\ Called("and")
    /\ IsPresent(op.recv)
    /\ IsPresent(op.args[1])
    /\ heap[op.recv].value # heap[op.args[1]].value
    /\ op.ret = op.args[1]

(* C10: o.map(f) has the variant of o: a present o holding v yields a      *)
(* present Option holding f(v), f being invoked exactly once on v; an      *)
(* absent o yields None.                                                   *)
C10_Map ==
    Called("map") =>
        /\ ~op.threw
        /\ IsPresent(op.ret) <=> IsPresent(op.recv)
        /\ IsAbsent(op.ret) <=> IsAbsent(op.recv)
        /\ IsPresent(op.recv) =>
               /\ InvokedOnce(1, <<heap[op.recv].value>>)
               /\ heap[op.ret].value = op.args[1].tbl[heap[op.recv].value]
        /\ IsAbsent(op.recv) => op.ret = NoneRef

C10_Witness ==
    /\ Called("map")
    /\ IsPresent(op.recv)
    /\ op.args[1].tbl = ConstNull
    /\ IsPresent(op.ret)
    /\ heap[op.ret].value = Null

(* C11: functor identity: for a present P holding v, P.map(identity) is    *)
(* present and holds v.                                                    *)
C11_MapIdentity ==
    Called("map") /\ IsPresent(op.recv) /\ op.args[1].kind = "fn"
                  /\ op.args[1].tbl = Identity =>
        /\ ~op.threw
        /\ IsPresent(op.ret)
        /\ ~IsAbsent(op.ret)
        /\ heap[op.ret].value = heap[op.recv].value

C11_Witness ==
    /\ Called("map")
    /\ IsPresent(op.recv)
    /\ op.args[1].tbl = Identity
    /\ heap[op.recv].value = 1
    /\ IsPresent(op.ret)
    /\ op.ret # op.recv

(* C12: functor composition: for every Option P, present or absent, and   *)
(* all transforms f and g, P.map(f).map(g) has the presence and the held   *)
(* value of P.map(x => g(f(x))).                                           *)
C12_MapComposition ==
    Called("map.map") => ~op.threw /\ op.lhs = op.rhs

C12_Witness ==
    /\ Called("map.map")
    /\ IsPresent(op.recv)
    /\ heap[op.recv].value = 0
    /\ op.args[1].tbl = Incr
    /\ op.args[2].tbl = Incr
    /\ op.lhs = SomeObject(0)
    /\ op.rhs = SomeObject(0)

C14_Defaults ==
    /\ Called("getValueOrDefault") =>
           /\ ~op.threw
           /\ NothingInvoked
           /\ op.ret = IF IsPresent(op.recv) THEN heap[op.recv].value ELSE op.args[1]
    /\ Called("mapOrDefault") =>
           /\ ~op.threw
           /\ IF IsPresent(op.recv)
              THEN /\ InvokedOnce(1, <<heap[op.recv].value>>)
                   /\ op.ret = op.args[1].tbl[heap[op.recv].value]
              ELSE /\ NothingInvoked
                   /\ op.ret = op.args[2]

C14_Witness ==
    /\ Called("mapOrDefault")
    /\ IsAbsent(op.recv)
    /\ op.args[1].tbl = Incr
    /\ op.args[2] = 0
    /\ op.ret = 0

(* C15: getValueOrCompute(compute) and mapOrCompute(f, compute) call       *)
(* compute on the absent path only: a present Option holding v gives v and *)
(* f(v) with compute called zero times; None gives compute(), compute      *)
(* being called exactly once and f zero times.                             *)
C15_ComputeOnlyWhenAbsent ==
    /\ Called("getValueOrCompute") =>
           /\ ~op.threw
           /\ IF IsPresent(op.recv)
              THEN NothingInvoked /\ op.ret = heap[op.recv].value
              ELSE /\ InvokedOnce(1, <<>>)
                   /\ op.ret = op.log[1].val
                   /\ op.ret = op.args[1].val
    /\ Called("mapOrCompute") =>
           /\ ~op.threw
           /\ IF IsPresent(op.recv)
              THEN /\ InvokedOnce(1, <<heap[op.recv].value>>)
                   /\ op.ret = op.args[1].tbl[heap[op.recv].value]
              ELSE /\ InvokedOnce(2, <<>>)
                   /\ op.ret = op.log[1].val
                   /\ op.ret = op.args[2].val

C15_Witness ==
    /\ Called("getValueOrCompute")
    /\ IsPresent(op.recv)
    /\ heap[op.recv].value = 0
    /\ op.args[1].val = 1
    /\ op.ret = 0

(* C16: in one invocation of a combinator or conversion utility, each     *)
(* callback the consumer supplied is invoked at most once.                 *)
C16_AtMostOnce ==
    op # IdleOp =>
        \A i \in 1 .. Len(op.log) : \A j \in 1 .. Len(op.log) :
            op.log[i].param = op.log[j].param => i = j

C16_Witness ==
    /\ Called("filter")
    /\ IsPresent(op.recv)
    /\ Len(op.log) = 1
    /\ op.log[1].param = 1
    /\ op.ret = op.recv

(* C17: no operation changes an Option that exists: across every step,    *)
(* each object keeps its isSome, its isNone and its held value, so after   *)
(* any sequence of calls a receiver or an Option argument is as it was     *)
(* when it was built.                                                      *)
C17_Immutable ==
    [][\A r \in 1 .. Len(heap) : r <= Len(heap') /\ heap'[r] = heap[r]]_vars

C17_Witness ==
    /\ Called("map")
    /\ IsPresent(op.recv)
    /\ op.args[1].tbl = Incr
    /\ heap[op.recv].value = 0
    /\ heap[op.ret].value = 1

(* C18: there is one absent instance: every absent Option the library     *)
(* returns (None.map/and/andThen/filter, Some.filter with a false          *)
(* predicate, a conversion utility on an input it classifies as absent) is *)
(* the None singleton itself, and no other object is absent.               *)
C18_OneNone ==
    /\ \A r \in Refs : IsAbsent(r) \/ ~IsPresent(r) => r = NoneRef
    /\ CalledOneOf(OptionOps) /\ ~op.threw /\ ~IsPresent(op.ret) => op.ret = NoneRef

C18_Witness ==
    /\ Called("fromValueConditional")
    /\ op.args[1] = 0
    /\ op.args[2].tbl = IsZero
    /\ op.ret = NoneRef
    /\ Len(heap) > 1

(* C19: the library raises nothing of its own and catches nothing: a call *)
(* raises iff a callback it invoked raised, the fault that reaches the     *)
(* caller is the one that callback raised and no Option is returned; a     *)
(* raising callback that is passed but not invoked (the path not taken)    *)
(* causes no fault.                                                        *)
C19_FaultsPropagate ==
    op # IdleOp =>
        /\ op.threw <=> \E i \in 1 .. Len(op.log) : op.log[i].threw
        /\ \A i \in 1 .. Len(op.log) :
               op.log[i].threw <=> PassedCallback(op.log[i].param).kind = "throw"
        /\ op.threw =>
               /\ op.log[Len(op.log)].threw
               /\ op.ret = PassedCallback(op.log[Len(op.log)].param).err
               /\ op.ret \in Errors

\* a raising transform reaches the caller of map
C19_Witness ==
    /\ Called("map")
    /\ IsPresent(op.recv)
    /\ op.args[1] = Thrower("E2")
    /\ op.threw
    /\ op.ret = "E2"

(* C20: fromValue(v) is None iff v is null or undefined; for every other  *)
(* v, the falsy 0 included, it is a present Option holding v.              *)
C20_FromValue ==
    Called("fromValue") =>
        LET v == op.args[1]
        IN  /\ ~op.threw
            /\ NothingInvoked
            /\ op.ret = NoneRef <=> v \in {Null, Undefined}
            /\ IsAbsent(op.ret) <=> v \in {Null, Undefined}
            /\ v \notin {Null, Undefined} => heap[op.ret] = SomeObject(v)

C20_Witness ==
    /\ Called("fromValue")
    /\ op.args[1] = 0
    /\ IsPresent(op.ret)
    /\ heap[op.ret].value = 0


(* C21: fromNullable(v) is None iff v is null, undefined giving a present  *)
(* Option; fromUndefinable(v) is None iff v is undefined, null giving a    *)
(* present Option; every present result holds v.                           *)
C21_NullableUndefinable ==
    /\ Called("fromNullable") =>
           LET v == op.args[1]
           IN  /\ ~op.threw
               /\ NothingInvoked
               /\ op.ret = NoneRef <=> v = Null
               /\ IsAbsent(op.ret) <=> v = Null
               /\ v # Null => heap[op.ret] = SomeObject(v)
    /\ Called("fromUndefinable") =>
           LET v == op.args[1]
           IN  /\ ~op.threw
               /\ NothingInvoked
               /\ op.ret = NoneRef <=> v = Undefined
               /\ IsAbsent(op.ret) <=> v = Undefined
               /\ v # Undefined => heap[op.ret] = SomeObject(v)

C21_Witness ==
    /\ Called("fromNullable")
    /\ op.args[1] = Undefined
    /\ IsPresent(op.ret)
    /\ heap[op.ret].value = Undefined


(* C22: fromValueConditional(v, isAbsent) is None iff isAbsent(v) is true  *)
(* and otherwise a present Option holding v; the predicate is applied once *)
(* to the raw v, null and undefined included, and alone decides the        *)
(* variant.                                                                *)
C22_FromValueConditional ==
    Called("fromValueConditional") =>
        LET v == op.args[1]
            absent == op.args[2].tbl[v]
        IN  /\ ~op.threw
            /\ InvokedOnce(2, <<v>>)
            /\ op.log[1].val = absent
            /\ op.ret = NoneRef <=> absent
            /\ IsAbsent(op.ret) <=> absent
            /\ ~absent => heap[op.ret] = SomeObject(v)

\* null is present when the predicate says so
C22_Witness ==
    /\ Called("fromValueConditional")
    /\ op.args[1] = Null
    /\ op.args[2].tbl = IsZero
    /\ InvokedOnce(2, <<Null>>)
    /\ IsPresent(op.ret)
    /\ heap[op.ret].value = Null


(* C23: for every predicate p and input v, createOptionFactory(p)(v) has   *)
(* the variant and the held value of fromValueConditional(v, p); the       *)
(* factory is reusable: applied to an input after another one, it gives    *)
(* what fromValueConditional gives for that input alone.                   *)
C23_FactoryIsConditional ==
    /\ Called("factory") =>
           LET r == fromValueConditional(Start, op.args[1], factory[1])
           IN  /\ ~op.threw
               /\ heap[op.ret] = r.heap[r.val]
               /\ op.ret = NoneRef <=> r.val = NoneRef
               /\ InvokedOnce(1, <<op.args[1]>>)
    /\ Called("factory.factory") => ~op.threw /\ op.lhs = op.rhs

\* an absent result first, then a present one from the same factory
C23_Witness ==
    /\ Called("factory.factory")
    /\ factory[1].tbl = IsZero
    /\ op.args = <<0, 1>>
    /\ op.lhs = SomeObject(1)
    /\ op.rhs = SomeObject(1)


C25_AndThenLaws ==
    /\ Called("andThen.andThen") => ~op.threw /\ op.lhs = op.rhs
    /\ Called("andThen.Some") =>
           ~op.threw /\ op.lhs = op.rhs /\ op.rhs = heap[op.recv]

\* f builds Some(v + 1), g builds Some(null): both sides hold null
C25_Witness ==
    /\ Called("andThen.andThen")
    /\ IsPresent(op.recv)
    /\ op.args[1] = [kind |-> "retSome", tbl |-> Incr]
    /\ op.args[2] = [kind |-> "retSome", tbl |-> ConstNull]
    /\ op.lhs = SomeObject(Null)
    /\ op.rhs = SomeObject(Null)


(* C26: filter is idempotent: for every Option o and predicate pred,       *)
(* o.filter(pred).filter(pred) is the very instance o.filter(pred) is;     *)
(* and filters commute in content: o.filter(p).filter(q) has the variant   *)
(* and the held value of o.filter(q).filter(p).                            *)
C26_FilterLaws ==
    /\ Called("filter.filter") => ~op.threw /\ op.lhs = op.rhs
    /\ Called("filter.order") => ~op.threw /\ op.lhs = op.rhs

\* a present Option that passes the predicate twice stays itself
C26_Witness ==
    /\ Called("filter.filter")
    /\ IsPresent(op.recv)
    /\ heap[op.recv].value = 0
    /\ op.args[1].tbl = IsZero
    /\ op.lhs = op.recv
    /\ op.rhs = op.recv


(* C27: the eager and the lazy combinators agree: for every Option o and   *)
(* every Option X, o.or(X) is the instance o.orElse(() => X) is, o.and(X)  *)
(* is the instance o.andThen(_ => X) is, o.getValueOrDefault(d) equals     *)
(* o.getValueOrCompute(() => d) and o.mapOrDefault(f, d) equals            *)
(* o.mapOrCompute(f, () => d).                                             *)
C27_EagerLazyAgree ==
    CalledOneOf({"or.orElse", "and.andThen", "getValueOrDefault.getValueOrCompute",
                 "mapOrDefault.mapOrCompute"}) =>
        ~op.threw /\ op.lhs = op.rhs

\* None falls back to the present X on both sides
C27_Witness ==
    /\ Called("or.orElse")
    /\ op.recv = NoneRef
    /\ IsPresent(op.args[1])
    /\ op.lhs = op.args[1]
    /\ op.rhs = op.args[1]

=============================================================================
